---------------------------- MODULE Spec2Model ----------------------------
(***************************************************************************)
(* Model of btc_parser.py: BtcAddressMonitoring (the two unconfirmed-feed  *)
(* checks and the address history) and BtcBlockMonitoring (the block-range *)
(* scan for multi-input / multi-output transactions).                      *)
(*                                                                         *)
(* JSON objects are TLA+ functions whose DOMAIN is the set of keys that    *)
(* are present, so `"k" in d` is  "k" \in DOMAIN d  and d["k"] on a missing *)
(* key is a KeyError.  JSON arrays are sequences (Python index 0 is index  *)
(* 1 here).  A call's result is an outcome: a normal return with a value,  *)
(* or an exception that leaves the method.                                 *)
(***************************************************************************)
EXTENDS Integers, Sequences, FiniteSets, TLC

VARIABLES
    watch_address,      \* BtcAddressMonitoring.watch_address
    transaction_list,   \* BtcAddressMonitoring.transaction_list
    call,               \* the monitor call the caller last made: op, response, outcome
    start_block,        \* BtcBlockMonitoring.start_block
    end_block,          \* BtcBlockMonitoring.end_block
    matrix,             \* BtcBlockMonitoring.matrix
    pc,                 \* position of the scan: "idle", "scan", "pair", "returned", "raised"
    block_num,          \* loop variable of the scan
    sender_addresses,   \* locals of the scan
    recipient_addresses,
    amounts,
    fetched,            \* the responses the API gave to the scan, in request order
    scan_exc,           \* the exception that left the scan, "" when none
    matrix_before       \* matrix when the scan in progress (or last made) began

monitor_vars == <<watch_address, transaction_list, call>>
scanner_vars == <<start_block, end_block, matrix, pc, block_num, sender_addresses,
                  recipient_addresses, amounts, fetched, scan_exc, matrix_before>>
vars == <<watch_address, transaction_list, call, start_block, end_block, matrix, pc,
          block_num, sender_addresses, recipient_addresses, amounts, fetched,
          scan_exc, matrix_before>>

---------------------------------------------------------------------------
(* Bounds of the model *)

MaxTxs == 2        \* transactions in one unconfirmed feed or one history page
MaxIO == 2         \* inputs / outputs of one transaction of an unconfirmed feed
MaxList == 3       \* cap on the cumulative history list
MaxHeight == 1     \* highest block height of a scanned range
MaxBlockIO == 3    \* inputs / outputs of one transaction of a block
MaxMatrix == 2     \* a scanner is asked to scan again only while its matrix is this short

---------------------------------------------------------------------------
(* Python values *)

Has(d, k) == k \in DOMAIN d

Return(v) == [kind |-> "return", value |-> v]
Raise(e) == [kind |-> "raise", exc |-> e]
Returned(o) == o.kind = "return"
Raised(o) == o.kind = "raise"

\* The classes an exception is an instance of.
Bases(e) ==
    CASE e = "ConnectionError" -> {"ConnectionError", "RequestException", "OSError"}
      [] e = "HTTPError" -> {"HTTPError", "RequestException", "OSError"}
      [] e = "JSONDecodeError" -> {"JSONDecodeError", "ValueError"}  \* what Response.json raises
      [] OTHER -> {e}

\* try: ... except classes: return handler_value
Except(o, classes, handler_value) ==
    IF Raised(o) /\ Bases(o.exc) \cap classes /= {} THEN Return(handler_value) ELSE o

\* Truthiness of a string or of an integer
TruthyStr(s) == s /= ""
TruthyInt(n) == n /= 0

---------------------------------------------------------------------------
(* HTTP: what requests.get(url) gives.  A response is one of               *)
(*   [raises |-> e]              requests.get raises e (no response)       *)
(*   [status |-> n, text |-> t]  a body that is not JSON                   *)
(*   [status |-> n, json |-> d]  a body that parses to the object d        *)

RequestsGet(resp) == IF Has(resp, "raises") THEN Raise(resp.raises) ELSE Return(resp)

\* Response.ok: the status is below 400
Ok(resp) == resp.status < 400

\* Response.raise_for_status()
RaiseForStatus(resp) == IF Ok(resp) THEN Return(resp) ELSE Raise("HTTPError")

\* Response.json()
Json(resp) == IF Has(resp, "json") THEN Return(resp.json) ELSE Raise("JSONDecodeError")

---------------------------------------------------------------------------
(* BtcAddressMonitoring.is_tx_transaction_from_btc_address *)

TransportErrors == {"RequestException", "ValueError"}
JsonErrors == {"ValueError"}
ParseErrorsOnlyIndex == {"IndexError"}
ParseErrors == {"KeyError", "IndexError"}

\* transaction['inputs'][0]['prev_out']['addr']
FirstInputAddr(tx) ==
    IF ~Has(tx, "inputs") THEN Raise("KeyError")
    ELSE IF Len(tx.inputs) = 0 THEN Raise("IndexError")
    ELSE IF ~Has(tx.inputs[1], "prev_out") THEN Raise("KeyError")
    ELSE IF ~Has(tx.inputs[1].prev_out, "addr") THEN Raise("KeyError")
    ELSE Return(tx.inputs[1].prev_out.addr)

RECURSIVE TxLoop(_, _, _)
TxLoop(txs, i, watch) ==
    IF i > Len(txs) THEN Return(FALSE)
    ELSE LET a == FirstInputAddr(txs[i]) IN
         IF Raised(a) THEN a
         ELSE IF a.value = watch THEN Return(TRUE)
         ELSE TxLoop(txs, i + 1, watch)

TxScan(data, watch) ==
    IF ~Has(data, "txs") THEN Raise("KeyError") ELSE TxLoop(data.txs, 1, watch)

\* The two guarded preludes, the same in both checks: the request with its
\* status check, then the parse.  Either the method has returned (a handler
\* ran, or an exception no handler names left it) or the parsed body is at hand.
FetchUnconfirmed(resp) ==
    LET got == RequestsGet(resp)
        checked == IF Raised(got) THEN got ELSE RaiseForStatus(resp)
    IN  IF Raised(checked)
        THEN [left |-> TRUE, outcome |-> Except(checked, TransportErrors, FALSE)]
        ELSE LET parsed == Json(resp) IN
             IF Raised(parsed)
             THEN [left |-> TRUE, outcome |-> Except(parsed, JsonErrors, FALSE)]
             ELSE [left |-> FALSE, data |-> parsed.value]

is_tx_transaction_from_btc_address(resp, watch) ==
    LET fetch == FetchUnconfirmed(resp) IN
    IF fetch.left THEN fetch.outcome
    ELSE Except(TxScan(fetch.data, watch), ParseErrors, FALSE)

---------------------------------------------------------------------------
(* BtcAddressMonitoring.is_rx_transaction_to_btc_address *)

FirstOutputOnly(tx) == IF Len(tx.out) = 0 THEN <<>> ELSE <<tx.out[1]>>
\* for output in transaction['out']
OutputsInspected(tx) == tx.out

\* 'addr' in output and output['addr'] == self.watch_address
OutputMatches(output, watch) == Has(output, "addr") /\ output.addr = watch

RECURSIVE RxLoop(_, _, _)
RxLoop(txs, i, watch) ==
    IF i > Len(txs) THEN Return(FALSE)
    ELSE IF ~Has(txs[i], "out") THEN Raise("KeyError")
    ELSE LET outs == OutputsInspected(txs[i]) IN
         IF \E j \in 1..Len(outs) : OutputMatches(outs[j], watch) THEN Return(TRUE)
         ELSE RxLoop(txs, i + 1, watch)

RxScan(data, watch) ==
    IF ~Has(data, "txs") THEN Raise("KeyError") ELSE RxLoop(data.txs, 1, watch)

is_rx_transaction_to_btc_address(resp, watch) ==
    LET fetch == FetchUnconfirmed(resp) IN
    IF fetch.left THEN fetch.outcome
    ELSE Except(RxScan(fetch.data, watch), ParseErrors, FALSE)

---------------------------------------------------------------------------
(* The responses the unconfirmed-transactions endpoint is given in the     *)
(* model.  Addresses: "W" is the watched one, "O" another one.             *)

SeqsUpTo(S, n) == UNION {[1..k -> S] : k \in 0..n}

\* prev_out objects / outputs: to the watched address, to another, without addr
FeedPoints == {[n |-> 0, addr |-> "W"], [n |-> 0, addr |-> "O"], [n |-> 0]}

FeedInputs == {[index |-> 0, prev_out |-> p] : p \in FeedPoints}

\* Transactions that differ in their inputs (the outgoing check reads only these)
FeedTxsByInputs ==
    {[hash |-> "t", out |-> <<[n |-> 0, addr |-> "O"]>>]}
    \cup {[hash |-> "t", inputs |-> ins, out |-> <<[n |-> 0, addr |-> "O"]>>] :
            ins \in SeqsUpTo(FeedInputs, MaxIO)}
    \cup {[hash |-> "t", inputs |-> <<[index |-> 0]>>, out |-> <<>>]}

\* Transactions that differ in their outputs (the incoming check reads only these)
FeedTxsByOutputs ==
    {[hash |-> "t", inputs |-> <<[index |-> 0, prev_out |-> [n |-> 0, addr |-> "O"]]>>]}
    \cup {[hash |-> "t", inputs |-> <<[index |-> 0, prev_out |-> [n |-> 0, addr |-> "O"]]>>,
           out |-> outs] : outs \in SeqsUpTo(FeedPoints, MaxIO)}

\* A transaction from the watched address to the watched address
MatchingTx ==
    [hash |-> "m", inputs |-> <<[index |-> 0, prev_out |-> [n |-> 0, addr |-> "W", value |-> 7]]>>,
     out |-> <<[n |-> 0, addr |-> "W", value |-> 7]>>]

FailedResponses ==
    {[raises |-> "ConnectionError"], [status |-> 500, text |-> "error"],
     [status |-> 404, json |-> [error |-> "not-found"]],
     [status |-> 503, json |-> [txs |-> <<MatchingTx>>]]}

UnreadableResponses ==
    {[status |-> 200, text |-> "<html>"], [status |-> 200, json |-> [error |-> "busy"]]}

FeedResponses(Txs) ==
    FailedResponses \cup UnreadableResponses
    \cup {[status |-> 200, json |-> [txs |-> t]] : t \in SeqsUpTo(Txs, MaxTxs)}

---------------------------------------------------------------------------
(* State after construction of one monitor and one scanner *)

Idle == [op |-> "none"]

\* BtcAddressMonitoring("W") and BtcBlockMonitoring(first, last) have been constructed.
Constructed(first, last) ==
    /\ watch_address = "W"
    /\ transaction_list = <<>>
    /\ call = Idle
    /\ start_block = first
    /\ end_block = last
    /\ matrix = <<>>
    /\ pc = "idle"
    /\ block_num = first
    /\ sender_addresses = <<>>
    /\ recipient_addresses = <<>>
    /\ amounts = <<>>
    /\ fetched = <<>>
    /\ scan_exc = ""
    /\ matrix_before = <<>>

Init == Constructed(0, 0)

---------------------------------------------------------------------------
(* The caller's calls of the two unconfirmed-feed checks *)

CallIsTx ==
    /\ call = Idle
    /\ \E resp \in FeedResponses(FeedTxsByInputs) :
          call' = [op |-> "is_tx", response |-> resp,
                   outcome |-> is_tx_transaction_from_btc_address(resp, watch_address)]
    /\ UNCHANGED <<watch_address, transaction_list>>
    /\ UNCHANGED scanner_vars

CallIsRx ==
    /\ call = Idle
    /\ \E resp \in FeedResponses(FeedTxsByOutputs) :
          call' = [op |-> "is_rx", response |-> resp,
                   outcome |-> is_rx_transaction_to_btc_address(resp, watch_address)]
    /\ UNCHANGED <<watch_address, transaction_list>>
    /\ UNCHANGED scanner_vars

\* The caller has taken the outcome and may call again.
CallerContinues ==
    /\ call /= Idle
    /\ call' = Idle
    /\ UNCHANGED <<watch_address, transaction_list>>
    /\ UNCHANGED scanner_vars

NextUnconfirmed == CallIsTx \/ CallIsRx \/ CallerContinues

SpecUnconfirmed == Init /\ [][NextUnconfirmed]_vars

---------------------------------------------------------------------------
(* BtcAddressMonitoring.get_transactions_from_btc_address                  *)

\* An optional Python value: <<>> is None, <<v>> is v.
None == <<>>
Some(v) == <<v>>

\* tx["inputs"][0]["prev_out"]["addr"] if tx["inputs"] else None
FromAddress(tx) ==
    IF Len(tx.inputs) = 0 THEN Return(None)
    ELSE IF ~Has(tx.inputs[1], "prev_out") THEN Raise("KeyError")
    ELSE IF ~Has(tx.inputs[1].prev_out, "addr") THEN Raise("KeyError")
    ELSE Return(Some(tx.inputs[1].prev_out.addr))

\* tx["out"][0]["addr"] if tx["out"] else None
ToAddress(tx) ==
    IF Len(tx.out) = 0 THEN Return(None)
    ELSE IF ~Has(tx.out[1], "addr") THEN Raise("KeyError")
    ELSE Return(Some(tx.out[1].addr))

\* tx["out"][0]["value"] if tx["out"] and "value" in tx["out"][0] else None
Amount(tx) ==
    IF Len(tx.out) > 0 /\ Has(tx.out[1], "value") THEN Some(tx.out[1].value) ELSE None

\* if from_address and to_address and amount
AllPresent(from, to, amount) ==
    /\ from /= None /\ TruthyStr(from[1])
    /\ to /= None /\ TruthyStr(to[1])
    /\ amount /= None /\ TruthyInt(amount[1])

AppendUnlessListed(list, entry) ==
    IF \E k \in 1..Len(list) : list[k] = entry THEN list ELSE Append(list, entry)
\* self.transaction_list.append((from_address, to_address, amount))
AppendTransfer(list, entry) == Append(list, entry)

\* The body of the loop for one transaction: the list after it, and the
\* exception that leaves it ("" when none).
HistoryTx(list, tx) ==
    IF ~(Has(tx, "inputs") /\ Has(tx, "out")) THEN [list |-> list, exc |-> ""]
    ELSE LET from == FromAddress(tx) IN
         IF Raised(from) THEN [list |-> list, exc |-> from.exc]
         ELSE LET to == ToAddress(tx) IN
              IF Raised(to) THEN [list |-> list, exc |-> to.exc]
              ELSE LET amount == Amount(tx) IN
                   IF AllPresent(from.value, to.value, amount)
                   THEN [list |-> AppendTransfer(list, <<from.value[1], to.value[1], amount[1]>>),
                         exc |-> ""]
                   ELSE [list |-> list, exc |-> ""]

RECURSIVE HistoryLoop(_, _, _)
HistoryLoop(list, txs, i) ==
    IF i > Len(txs) THEN [list |-> list, exc |-> ""]
    ELSE LET step == HistoryTx(list, txs[i]) IN
         IF step.exc /= "" THEN step ELSE HistoryLoop(step.list, txs, i + 1)

KeepOnFailure(list) == list
\* else: self.transaction_list = []
OnFailedStatus(list) == <<>>

\* The list the call leaves in self.transaction_list, and the call's outcome.
get_transactions_from_btc_address(list, resp) ==
    LET got == RequestsGet(resp) IN
    IF Raised(got) THEN [list |-> list, outcome |-> got]
    ELSE IF Ok(resp)
         THEN LET data == Json(resp) IN
              IF Raised(data) THEN [list |-> list, outcome |-> data]
              ELSE IF Has(data.value, "txs")
                   THEN LET done == HistoryLoop(list, data.value.txs, 1) IN
                        [list |-> done.list,
                         outcome |-> IF done.exc = "" THEN Return(done.list)
                                     ELSE Raise(done.exc)]
                   ELSE [list |-> list, outcome |-> Return(list)]
         ELSE [list |-> OnFailedStatus(list), outcome |-> Return(OnFailedStatus(list))]

---------------------------------------------------------------------------
(* The responses the address-history endpoint is given in the model *)

HistoryFirstInputs ==
    {[index |-> 0, prev_out |-> [n |-> 0, addr |-> a, value |-> 9]] : a \in {"W", "O", ""}}
    \cup {[index |-> 0, prev_out |-> [n |-> 0, value |-> 9]], [index |-> 0]}

\* A further input or output, which the history must ignore
OtherInput == [index |-> 1, prev_out |-> [n |-> 1, addr |-> "X", value |-> 4]]
OtherOutput == [n |-> 1, addr |-> "Y", value |-> 3]

HistoryFirstOutputs ==
    {[n |-> 0, addr |-> a, value |-> v] : a \in {"O", ""}, v \in {7, 0}}
    \cup {[n |-> 0, addr |-> a] : a \in {"O", ""}}
    \cup {[n |-> 0, value |-> 7], [n |-> 0]}

GoodInputs == <<[index |-> 0, prev_out |-> [n |-> 0, addr |-> "W", value |-> 9]]>>
GoodOut == <<[n |-> 0, addr |-> "O", value |-> 7]>>

HistoryTxs ==
    {[hash |-> "h", out |-> GoodOut], [hash |-> "h", inputs |-> GoodInputs], [hash |-> "h"]}
    \cup {[hash |-> "h", inputs |-> ins, out |-> GoodOut] :
            ins \in {<<>>} \cup {<<f>> : f \in HistoryFirstInputs}
                    \cup {<<f, OtherInput>> : f \in HistoryFirstInputs}}
    \cup {[hash |-> "h", inputs |-> GoodInputs, out |-> outs] :
            outs \in {<<>>} \cup {<<f>> : f \in HistoryFirstOutputs}
                     \cup {<<f, OtherOutput>> : f \in HistoryFirstOutputs}}

HistoryResponses ==
    FailedResponses \cup UnreadableResponses
    \cup {[status |-> 200, json |-> [txs |-> t]] : t \in SeqsUpTo(HistoryTxs, MaxTxs)}

NumTxs(resp) ==
    IF Has(resp, "json") /\ Has(resp.json, "txs") THEN Len(resp.json.txs) ELSE 0

CallHistory ==
    /\ call = Idle
    /\ \E resp \in HistoryResponses :
          /\ Len(transaction_list) + NumTxs(resp) <= MaxList
          /\ LET r == get_transactions_from_btc_address(transaction_list, resp) IN
             /\ transaction_list' = r.list
             /\ call' = [op |-> "history", response |-> resp, before |-> transaction_list,
                         outcome |-> r.outcome]
    /\ UNCHANGED watch_address
    /\ UNCHANGED scanner_vars

NextHistory == CallHistory \/ CallerContinues

SpecHistory == Init /\ [][NextHistory]_vars

---------------------------------------------------------------------------
(* Properties of the two unconfirmed-feed checks *)

Success(status) == status \in 200..299

\* The response is a network failure, has a non-2xx status, a body that is not
\* JSON, or JSON without the txs key.
MalformedFeed(resp) ==
    \/ Has(resp, "raises")
    \/ ~Success(resp.status)
    \/ ~Has(resp, "json")
    \/ ~Has(resp.json, "txs")

\* The feed was fetched: a success status and a JSON body with the txs key
FetchedFeed(resp) == ~MalformedFeed(resp)

\* The first input of tx names address a as its source.
FirstInputIs(tx, a) ==
    /\ Has(tx, "inputs") /\ Len(tx.inputs) > 0
    /\ Has(tx.inputs[1], "prev_out") /\ Has(tx.inputs[1].prev_out, "addr")
    /\ tx.inputs[1].prev_out.addr = a

\* Some output of tx, at any index, names address a.
SomeOutputIs(tx, a) ==
    /\ Has(tx, "out")
    /\ \E j \in 1..Len(tx.out) : Has(tx.out[j], "addr") /\ tx.out[j].addr = a

C2_TrueWhateverTheOtherTransactions ==
    (/\ call.op = "is_tx"
     /\ FetchedFeed(call.response)
     /\ \E i \in 1..Len(call.response.json.txs) :
           FirstInputIs(call.response.json.txs[i], watch_address))
        => call.outcome = Return(TRUE)

---------------------------------------------------------------------------
(* Properties of the address history *)

IsPrefix(s, t) == Len(s) <= Len(t) /\ SubSeq(t, 1, Len(s)) = s

\* tx has inputs and out, and its first input's address, first output's
\* address and first output's amount are present (non-empty, non-zero).
ValidTransfer(tx) ==
    /\ Has(tx, "inputs") /\ Has(tx, "out")
    /\ Len(tx.inputs) > 0 /\ Len(tx.out) > 0
    /\ Has(tx.inputs[1], "prev_out") /\ Has(tx.inputs[1].prev_out, "addr")
    /\ tx.inputs[1].prev_out.addr /= ""
    /\ Has(tx.out[1], "addr") /\ tx.out[1].addr /= ""
    /\ Has(tx.out[1], "value") /\ tx.out[1].value /= 0

TripleOf(tx) == <<tx.inputs[1].prev_out.addr, tx.out[1].addr, tx.out[1].value>>

RECURSIVE TriplesOf(_)
TriplesOf(txs) ==
    IF txs = <<>> THEN <<>>
    ELSE (IF ValidTransfer(Head(txs)) THEN <<TripleOf(Head(txs))>> ELSE <<>>)
         \o TriplesOf(Tail(txs))

ReturnedTxs(resp) ==
    IF Has(resp, "json") /\ Has(resp.json, "txs") THEN resp.json.txs ELSE <<>>

\* C4: a history call answered with a non-success status leaves the
\* cumulative list empty and returns the empty list, whatever it held before.
C4_FailedStatusResetsList ==
    (/\ call.op = "history"
     /\ Has(call.response, "status") /\ ~Success(call.response.status))
        => (transaction_list = <<>> /\ call.outcome = Return(<<>>))

\* C4 witness: the list was non-empty from an earlier call when the failed
\* call emptied it.
C4_Witness ==
    /\ call.op = "history"
    /\ Has(call.response, "status") /\ call.response.status = 500
    /\ call.before /= <<>>
    /\ transaction_list = <<>>

C7_NoFaultReachesTheCaller ==
    /\ call.op = "history" => Returned(call.outcome)
    /\ pc /= "raised"

---------------------------------------------------------------------------
(* BtcBlockMonitoring.get_mixed_btc_transactions_from_btc_blocks           *)
(* The locals of a scan are acc = [senders, recipients, amounts]; a step   *)
(* gives the locals after it and the exception that leaves it ("" if none) *)

IsCoinJoinEither(tx) ==
    IF ~Has(tx, "inputs") THEN Raise("KeyError")
    ELSE IF Len(tx.inputs) > 1 THEN Return(TRUE)
    ELSE IF ~Has(tx, "out") THEN Raise("KeyError")
    ELSE Return(Len(tx.out) > 1)
\* len(tx["inputs"]) > 1 and len(tx["out"]) > 1
IsCoinJoin(tx) ==
    IF ~Has(tx, "inputs") THEN Raise("KeyError")
    ELSE IF ~(Len(tx.inputs) > 1) THEN Return(FALSE)
    ELSE IF ~Has(tx, "out") THEN Raise("KeyError")
    ELSE Return(Len(tx.out) > 1)

\* for input_data in tx["inputs"]: append the sender address and the amount
RECURSIVE ScanInputs(_, _, _)
ScanInputs(acc, inputs, i) ==
    IF i > Len(inputs) THEN [acc |-> acc, exc |-> ""]
    ELSE IF ~Has(inputs[i], "prev_out") THEN [acc |-> acc, exc |-> "KeyError"]
    ELSE IF ~Has(inputs[i].prev_out, "addr") THEN [acc |-> acc, exc |-> "KeyError"]
    ELSE IF ~Has(inputs[i].prev_out, "value") THEN [acc |-> acc, exc |-> "KeyError"]
    ELSE ScanInputs([acc EXCEPT !.senders = Append(@, inputs[i].prev_out.addr),
                                !.amounts = Append(@, inputs[i].prev_out.value)],
                    inputs, i + 1)

\* for output_data in tx["out"]: append the recipient address, read the value
RECURSIVE ScanOutputs(_, _, _)
ScanOutputs(acc, out, j) ==
    IF j > Len(out) THEN [acc |-> acc, exc |-> ""]
    ELSE IF ~Has(out[j], "addr") THEN [acc |-> acc, exc |-> "KeyError"]
    ELSE LET added == [acc EXCEPT !.recipients = Append(@, out[j].addr)] IN
         IF ~Has(out[j], "value") THEN [acc |-> added, exc |-> "KeyError"]
         ELSE ScanOutputs(added, out, j + 1)

ScanTx(acc, tx) ==
    LET mixed == IsCoinJoin(tx) IN
    IF Raised(mixed) THEN [acc |-> acc, exc |-> mixed.exc]
    ELSE IF ~mixed.value THEN [acc |-> acc, exc |-> ""]
    ELSE LET ins == ScanInputs(acc, tx.inputs, 1) IN
         IF ins.exc /= "" THEN ins ELSE ScanOutputs(ins.acc, tx.out, 1)

\* for tx in block_data["tx"]
RECURSIVE ScanTxs(_, _, _)
ScanTxs(acc, txs, i) ==
    IF i > Len(txs) THEN [acc |-> acc, exc |-> ""]
    ELSE LET step == ScanTx(acc, txs[i]) IN
         IF step.exc /= "" THEN step ELSE ScanTxs(step.acc, txs, i + 1)

FailedBlockRaises(acc) == [acc |-> acc, exc |-> "HTTPError"]
\* if response.ok: ... with no else: the block is passed over
FailedBlock(acc) == [acc |-> acc, exc |-> ""]

\* One pass of the loop over the block range, given the response to its request
ScanBlock(acc, resp) ==
    LET got == RequestsGet(resp) IN
    IF Raised(got) THEN [acc |-> acc, exc |-> got.exc]
    ELSE IF ~Ok(resp) THEN FailedBlock(acc)
    ELSE LET data == Json(resp) IN
         IF Raised(data) THEN [acc |-> acc, exc |-> data.exc]
         ELSE IF ~Has(data.value, "tx") THEN [acc |-> acc, exc |-> "KeyError"]
         ELSE ScanTxs(acc, data.value.tx, 1)

\* for i in range(len(sender_addresses)): append [sender, recipient, amount]
RECURSIVE PairLoop(_, _, _)
PairLoop(rows, acc, i) ==
    IF i > Len(acc.senders) THEN [rows |-> rows, exc |-> ""]
    ELSE IF i > Len(acc.recipients) THEN [rows |-> rows, exc |-> "IndexError"]
    ELSE PairLoop(Append(rows, <<acc.senders[i], acc.recipients[i], acc.amounts[i]>>),
                  acc, i + 1)

---------------------------------------------------------------------------
(* The responses the block endpoint is given in the model *)

SenderNames == <<"S1", "S2", "S3", "S4", "S5">>
RecipientNames == <<"R1", "R2", "R3", "R4", "R5">>

\* A transaction of ni inputs and no outputs; zero: its first input is worth 0
BlockTx(ni, no, zero) ==
    [hash |-> "b",
     inputs |-> [i \in 1..ni |->
                   [index |-> i - 1,
                    prev_out |-> [n |-> i - 1, addr |-> SenderNames[i],
                                  value |-> IF zero /\ i = 1 THEN 0 ELSE 10 * i]]],
     out |-> [j \in 1..no |-> [n |-> j - 1, addr |-> RecipientNames[j], value |-> j]]]

\* Two inputs and two outputs, the second input without a source address
BlockTxNoAddr ==
    [BlockTx(2, 2, FALSE) EXCEPT !.inputs[2] = [index |-> 1, prev_out |-> [n |-> 1, value |-> 20]]]

BlockTxs ==
    {BlockTx(ni, no, FALSE) : ni \in 0..MaxBlockIO, no \in 0..MaxBlockIO}
    \cup {BlockTx(ni, no, TRUE) : ni \in 2..MaxBlockIO, no \in 2..MaxBlockIO}
    \cup {BlockTxNoAddr}

BlockTxLists ==
    {<<>>} \cup {<<t>> : t \in BlockTxs}
    \cup {<<BlockTx(1, 2, FALSE), BlockTx(2, 2, FALSE)>>,
          <<BlockTx(2, 2, FALSE), BlockTx(2, 2, TRUE)>>}

BlockResponses ==
    {[raises |-> "ConnectionError"], [status |-> 500, text |-> "error"],
     [status |-> 200, text |-> "<html>"], [status |-> 200, json |-> [hash |-> "k"]]}
    \cup {[status |-> 200, json |-> [hash |-> "k", tx |-> t]] : t \in BlockTxLists}

---------------------------------------------------------------------------
(* The scan, one step per request *)

InitScanner == \E first \in 0..1 : \E last \in 0..MaxHeight : Constructed(first, last)

Locals == [senders |-> sender_addresses, recipients |-> recipient_addresses,
           amounts |-> amounts]

\* The caller calls the method: the locals are initialised, the loop begins.
StartScan ==
    /\ pc \in {"idle", "returned", "raised"}
    /\ Len(matrix) <= MaxMatrix
    /\ sender_addresses' = <<>>
    /\ recipient_addresses' = <<>>
    /\ amounts' = <<>>
    /\ fetched' = <<>>
    /\ scan_exc' = ""
    /\ matrix_before' = matrix
    /\ block_num' = start_block
    /\ pc' = IF start_block <= end_block THEN "scan" ELSE "pair"
    /\ UNCHANGED <<start_block, end_block, matrix>>
    /\ UNCHANGED monitor_vars

\* One pass of the loop: the request for block_num and all that is done with
\* its response.
FetchBlock ==
    /\ pc = "scan"
    /\ \E resp \in BlockResponses :
          LET step == ScanBlock(Locals, resp) IN
          /\ fetched' = Append(fetched, [height |-> block_num, response |-> resp])
          /\ sender_addresses' = step.acc.senders
          /\ recipient_addresses' = step.acc.recipients
          /\ amounts' = step.acc.amounts
          /\ scan_exc' = step.exc
          /\ IF step.exc /= ""
             THEN pc' = "raised" /\ block_num' = block_num
             ELSE /\ block_num' = block_num + 1
                  /\ pc' = IF block_num + 1 <= end_block THEN "scan" ELSE "pair"
    /\ UNCHANGED <<start_block, end_block, matrix, matrix_before>>
    /\ UNCHANGED monitor_vars

\* After the loop: the rows are appended to self.matrix, which is returned.
PairAndReturn ==
    /\ pc = "pair"
    /\ LET done == PairLoop(matrix, Locals, 1) IN
       /\ matrix' = done.rows
       /\ scan_exc' = done.exc
       /\ pc' = IF done.exc = "" THEN "returned" ELSE "raised"
    /\ UNCHANGED <<start_block, end_block, block_num, sender_addresses,
                   recipient_addresses, amounts, fetched, matrix_before>>
    /\ UNCHANGED monitor_vars

NextScan == StartScan \/ FetchBlock \/ PairAndReturn

SpecScan == InitScanner /\ [][NextScan]_vars

\* The whole program.  The monitor and the scanner share no state, so the
\* three specifications above are its projections on the operations of each.
Next == NextUnconfirmed \/ NextHistory \/ NextScan

Spec == InitScanner /\ [][Next]_vars

---------------------------------------------------------------------------
(* Properties of the scan *)

FailedStatus(resp) == Has(resp, "status") /\ ~Success(resp.status)

\* The transactions of the blocks that were fetched successfully, in order
RECURSIVE FetchedTxs(_)
FetchedTxs(log) ==
    IF log = <<>> THEN <<>>
    ELSE LET r == Head(log).response IN
         (IF Has(r, "status") /\ Success(r.status) /\ Has(r, "json") /\ Has(r.json, "tx")
          THEN r.json.tx ELSE <<>>)
         \o FetchedTxs(Tail(log))

\* More than one input and more than one output
MixingCandidate(tx) ==
    Has(tx, "inputs") /\ Has(tx, "out") /\ Len(tx.inputs) > 1 /\ Len(tx.out) > 1

Candidates(log) == SelectSeq(FetchedTxs(log), MixingCandidate)

RECURSIVE InputsOf(_)
InputsOf(txs) == IF txs = <<>> THEN <<>> ELSE Head(txs).inputs \o InputsOf(Tail(txs))

RECURSIVE OutputsOf(_)
OutputsOf(txs) == IF txs = <<>> THEN <<>> ELSE Head(txs).out \o OutputsOf(Tail(txs))

Min(a, b) == IF a <= b THEN a ELSE b

\* The pairing has been reached: the loop over the range ran to its end.
PairingDone == pc \in {"returned", "raised"} /\ block_num > end_block

\* C5: every entry of the history list and every row of the scanner's matrix
\* has a non-empty sender, a non-empty recipient and a non-zero amount.
C5_NoEmptyFieldIsEmitted ==
    /\ \A k \in 1..Len(transaction_list) :
          /\ transaction_list[k][1] /= "" /\ transaction_list[k][2] /= ""
          /\ transaction_list[k][3] /= 0
    /\ \A k \in 1..Len(matrix) :
          matrix[k][1] /= "" /\ matrix[k][2] /= "" /\ matrix[k][3] /= 0

\* C6: when the sender list and the recipient list differ in length, the scan
\* returns normally and has added exactly min(senders, recipients) rows.
C6_PairingStopsAtTheShorterList ==
    (PairingDone /\ Len(sender_addresses) /= Len(recipient_addresses))
        => /\ pc = "returned"
           /\ Len(matrix) = Len(matrix_before)
                            + Min(Len(sender_addresses), Len(recipient_addresses))

\* C8: the heights of the range are requested in ascending order; a block
\* answered with a non-success status does not stop the scan (the loop moves
\* on to the next height, or the range is complete) and contributes nothing
\* (the locals hold exactly the inputs and outputs of the candidates of the
\* successfully fetched blocks); the returned matrix has one row for every
\* candidate input of every successfully fetched block, before or after a
\* failed one.
C8_FailedBlockIsSkipped ==
    /\ \A k \in 1..Len(fetched) : fetched[k].height = start_block + k - 1
    /\ \A k \in 1..Len(fetched) :
          FailedStatus(fetched[k].response) =>
             \/ k < Len(fetched)
             \/ pc = "scan" /\ block_num = fetched[k].height + 1
             \/ fetched[k].height = end_block /\ block_num = end_block + 1
    /\ pc \in {"scan", "pair", "returned"} =>
          LET ins == InputsOf(Candidates(fetched))
              outs == OutputsOf(Candidates(fetched))
          IN  /\ sender_addresses = [i \in 1..Len(ins) |-> ins[i].prev_out.addr]
              /\ amounts = [i \in 1..Len(ins) |-> ins[i].prev_out.value]
              /\ recipient_addresses = [j \in 1..Len(outs) |-> outs[j].addr]
              /\ pc = "returned" =>
                    /\ Len(fetched) = IF start_block <= end_block
                                      THEN end_block - start_block + 1 ELSE 0
                    /\ matrix = matrix_before \o
                          [i \in 1..Len(ins) |->
                             <<ins[i].prev_out.addr, outs[i].addr, ins[i].prev_out.value>>]

\* C8 witness: of a range of two blocks the first was answered with status 500
\* and the second held a candidate; the scan returned the candidate's rows.
C8_Witness ==
    /\ pc = "returned"
    /\ Len(fetched) = 2
    /\ fetched[1].response = [status |-> 500, text |-> "error"]
    /\ Candidates(fetched) = <<BlockTx(2, 2, FALSE)>>
    /\ matrix = matrix_before \o <<<<"S1", "R1", 10>>, <<"S2", "R2", 20>>>>

\* C9: on a fresh scanner, a scan that returns after a range whose only
\* transaction with more than one input and more than one output has n inputs
\* and n outputs returns exactly the n rows (i-th input address, i-th output
\* address, i-th input amount); after a range without such a transaction it
\* returns no rows.
C9_OnlyMultiInputMultiOutputContributes ==
    (pc = "returned" /\ matrix_before = <<>>) =>
        LET cs == Candidates(fetched) IN
        /\ cs = <<>> => matrix = <<>>
        /\ (Len(cs) = 1 /\ Len(cs[1].inputs) = Len(cs[1].out)) =>
              matrix = [i \in 1..Len(cs[1].inputs) |->
                          <<cs[1].inputs[i].prev_out.addr, cs[1].out[i].addr,
                            cs[1].inputs[i].prev_out.value>>]

\* C9 witness: a fresh scanner returned three rows for a range whose blocks
\* held a transaction of three inputs and three outputs and a transaction of
\* one input and two outputs.
C9_Witness ==
    /\ pc = "returned"
    /\ matrix_before = <<>>
    /\ Len(fetched) = 2
    /\ FetchedTxs(fetched) = <<BlockTx(3, 3, FALSE), BlockTx(1, 2, FALSE)>>
    /\ matrix = <<<<"S1", "R1", 10>>, <<"S2", "R2", 20>>, <<"S3", "R3", 30>>>>

=============================================================================
